---- MODULE Spec2Model ----
(***************************************************************************)
(* The tool-call handlers of the Alchemy Studio MCP server.                *)
(*                                                                         *)
(* Three servers are modelled: src/src/index.ts (the proxying server, five *)
(* tools, every tool a fetch against the backend), src/src/standalone.ts   *)
(* (three tools, provider SDK calls) and the hosted server of              *)
(* src/unnamed/part_000 (the same three tools, registered one by one).  An *)
(* invocation is one CallToolRequest; it advances from one await to the    *)
(* next, and several invocations interleave at their awaits.  The data-URL *)
(* round trip is a specification of its own, SpecDataUrl.                  *)
(***************************************************************************)
EXTENDS Integers, Sequences, FiniteSets, TLC

\* Number of tool invocations that may be in flight together.
NInv == 2
\* The per-endpoint request counters stop counting here ("more than once").
CountCap == 2
\* index.ts:306  const maxAttempts = 30
maxAttempts == 30

Inv == 1..NInv

\* A missing property or argument (JavaScript's undefined).
Undefined == "undefined"

VARIABLES
    config,         \* which server runs, and whether OPENAI_API_KEY is set
    tool,           \* request.params.name of each invocation
    args,           \* request.params.arguments of each invocation
    pc,             \* where each invocation is suspended
    operationName,  \* generateVideo's local operationName
    attempts,       \* generateVideo's local attempts
    result,         \* what the call-tool handler returned to the transport
    failed,         \* an exception was raised inside the handler
    reqs,           \* requests issued per endpoint (status queries apart)
    queries,        \* status queries issued (POST /api/veo/operation)
    delays,         \* 10 s delays completed
    pollNames,      \* the operation names carried by the status queries
    startName,      \* the operation name the start response carried
    sent,           \* what the last request of each invocation carried
    history         \* the finished poll attempts so far: "pending" (each
                    \* a status of not done), "noref" (each that or done
                    \* with no file reference, one at least the latter),
                    \* "mixed" (a non-success status or download among them)

\* The data-URL round trip, taken by itself.
VARIABLES
    stage,          \* "idle", or how far the round trip has come
    image,          \* the image encoded: its mime type and its bytes
    imageUrl,       \* the data URL built from it
    mimeType,       \* the mime type read back from the data URL
    buffer          \* the bytes read back from the data URL

handlerVars == <<config, tool, args, pc, operationName, attempts, result,
                 failed, reqs, queries, delays, pollNames, startName,
                 sent, history>>
codecVars == <<stage, image, imageUrl, mimeType, buffer>>
vars == <<handlerVars, codecVars>>

----------------------------------------------------------------------------
(* Values *)

Prompts == {"a red fox"}
\* The operation name the backend gives the job an invocation starts: each
\* job has a name of its own (here the job's number).
OpIdOf(i) == ToString(i)
FileUris == {"files/v1"}
HostedUrls == {"https://x/y.png"}

\* The tools each server's switch statement knows.
IndexTools == {"generate_image", "edit_image", "generate_video",
               "get_cultural_insights", "list_media"}
StandaloneTools == {"generate_image", "edit_image", "get_cultural_insights"}
UnknownTools == {"no_such_tool"}
ToolNames == IndexTools \cup UnknownTools

\* Every upstream endpoint but the video-operation-status endpoint.
Endpoints == {"imagen_generate", "gemini_generate", "gemini_edit",
              "remote_image", "veo_generate", "veo_download",
              "cultural", "media", "sdk_generate", "chat"}

\* The servers that call the provider SDKs themselves.
SdkServers == {"standalone", "smithery"}

Configs == {[server |-> "index", openai |-> FALSE]} \cup
           [server : SdkServers, openai : BOOLEAN]

\* A thrown value: its type, its .message property (empty when it has none
\* or an empty one) and what String(value) gives.
Err(msg) == [type |-> "Error", message |-> msg, str |-> <<"Error: ">> \o msg]

\* What an upstream call (fetch, response.json(), an SDK call) may reject
\* with: an Error, an Error with an empty message, or a non-Error value.
Rejections ==
    { Err(<<"fetch failed">>),
      [type |-> "Error", message |-> << >>, str |-> <<"Error">>],
      [type |-> "string", message |-> << >>, str |-> <<"boom">>],
      [type |-> "null", message |-> << >>, str |-> <<"null">>] }

\* response.json() rejecting, or a body that is not an object.
BadBody == Err(<<"Unexpected token in JSON">>)

----------------------------------------------------------------------------
(* The result envelope *)

NoResult == [kind |-> "none", content |-> << >>]
Fault == [kind |-> "fault", content |-> << >>]
Envelope(text) ==
    [kind |-> "envelope", content |-> << [type |-> "text", text |-> text] >>]

\* index.ts:174  error instanceof Error ? error.message : 'Unknown error'
IndexMessage(e) ==
    IF e.type = "Error" THEN e.message ELSE <<"Unknown error">>

\* standalone.ts:92  error?.message || String(error)
StandaloneMessage(e) ==
    IF e.message # << >> THEN e.message ELSE e.str

\* A catch block that reads error.message of whatever was thrown: a thrown
\* null makes the catch block itself throw.
CatchResultAssumesError(c, e) ==
    IF e.type = "null" THEN Fault ELSE Envelope(<<"Error: ">> \o e.message)

\* The catch block of the call-tool handler.
CatchResult(c, e) ==
    Envelope(<<"Error: ">> \o
             (IF c.server = "index" THEN IndexMessage(e)
                                    ELSE StandaloneMessage(e)))

\* A timed-out text that leaves the operation out.
TimedOutTextBare(op) ==
    <<"Video generation started but timed out waiting for completion.">>

TimedOutText(op) ==
    <<"Video generation started but timed out waiting for completion.",
      "Operation: ", op>>

CompletedText(prompt, url, aspect) ==
    <<"Video generated successfully", "Prompt: ", prompt,
      "Video URL: ", url, "Aspect Ratio: ", aspect>>

IsErrorText(text) == Len(text) >= 1 /\ text[1] = "Error: "
TextOf(r) == r.content[1].text

----------------------------------------------------------------------------
(* Strings and data URLs.  A string is the sequence of its characters, a   *)
(* buffer the sequence of its bytes.                                       *)

\* Longest mime type and longest buffer tried in the round trip.
MaxMimeLen == 3
MaxBytes == 3

Str(n) == ToString(n)

DataPrefix == <<"d", "a", "t", "a", ":">>
Base64Marker == <<";", "b", "a", "s", "e", "6", "4", ",">>
ImagePng == <<"i", "m", "a", "g", "e", "/", "p", "n", "g">>

\* s.startsWith(p)
StartsWith(s, p) == Len(s) >= Len(p) /\ SubSeq(s, 1, Len(p)) = p

\* The place of the first comma of s at or after k; Len(s) + 1 if none.
CommaFrom(s, k) ==
    LET at == {j \in k..Len(s) : s[j] = ","}
    IN IF at = {} THEN Len(s) + 1
       ELSE CHOOSE j \in at : \A m \in at : j <= m

\* const [header, base64] = s.split(','): the piece before the first comma,
\* and the piece between the first comma and the second (undefined when s
\* has no comma).
HeaderOf(s) == SubSeq(s, 1, CommaFrom(s, 1) - 1)
SplitHasSecond(s) == CommaFrom(s, 1) <= Len(s)
Base64Of(s) ==
    SubSeq(s, CommaFrom(s, 1) + 1, CommaFrom(s, CommaFrom(s, 1) + 1) - 1)

\* A header reader that ignores the header.
MimeTypeOfDefault(header) == ImagePng

\* header.match(/data:([^;]+)/)?.[1] || 'image/png': the first place where
\* "data:" is followed by a character other than ';', and the characters
\* from there up to the next ';'.
MimeTypeOf(header) ==
    LET at == {k \in 1..(Len(header) - 5) :
                 /\ SubSeq(header, k, k + 4) = DataPrefix
                 /\ header[k + 5] # ";"}
    IN IF at = {} THEN ImagePng
       ELSE LET k == CHOOSE j \in at : \A m \in at : j <= m
                semis == {j \in (k + 5)..Len(header) : header[j] = ";"}
                end == IF semis = {} THEN Len(header)
                       ELSE (CHOOSE j \in semis : \A m \in semis : j <= m) - 1
            IN SubSeq(header, k + 5, end)

\* The base64 alphabet.
B64Chars ==
    <<"A", "B", "C", "D", "E", "F", "G", "H", "I", "J", "K", "L", "M", "N", "O", "P",
      "Q", "R", "S", "T", "U", "V", "W", "X", "Y", "Z", "a", "b", "c", "d", "e", "f",
      "g", "h", "i", "j", "k", "l", "m", "n", "o", "p", "q", "r", "s", "t", "u", "v",
      "w", "x", "y", "z", "0", "1", "2", "3", "4", "5", "6", "7", "8", "9", "+", "/">>

IsB64Char(c) == \E k \in 1..64 : B64Chars[k] = c
Sextet(c) == (CHOOSE k \in 1..64 : B64Chars[k] = c) - 1

\* buffer.toString('base64')
RECURSIVE ToBase64(_)
ToBase64(b) ==
    IF Len(b) = 0 THEN << >>
    ELSE IF Len(b) = 1
    THEN <<B64Chars[(b[1] \div 4) + 1], B64Chars[(b[1] % 4) * 16 + 1],
           "=", "=">>
    ELSE IF Len(b) = 2
    THEN <<B64Chars[(b[1] \div 4) + 1],
           B64Chars[(b[1] % 4) * 16 + (b[2] \div 16) + 1],
           B64Chars[(b[2] % 16) * 4 + 1], "=">>
    ELSE <<B64Chars[(b[1] \div 4) + 1],
           B64Chars[(b[1] % 4) * 16 + (b[2] \div 16) + 1],
           B64Chars[(b[2] % 16) * 4 + (b[3] \div 64) + 1],
           B64Chars[(b[3] % 64) + 1]>> \o ToBase64(SubSeq(b, 4, Len(b)))

\* The sextets of the characters of s up to the first '='; a character
\* outside the alphabet is passed over.
RECURSIVE SextetsOf(_)
SextetsOf(s) ==
    IF Len(s) = 0 \/ s[1] = "=" THEN << >>
    ELSE IF IsB64Char(s[1]) THEN <<Sextet(s[1])>> \o SextetsOf(Tail(s))
    ELSE SextetsOf(Tail(s))

RECURSIVE BytesOf(_)
BytesOf(x) ==
    IF Len(x) < 2 THEN << >>
    ELSE IF Len(x) = 2 THEN <<x[1] * 4 + (x[2] \div 16)>>
    ELSE IF Len(x) = 3
    THEN <<x[1] * 4 + (x[2] \div 16), (x[2] % 16) * 16 + (x[3] \div 4)>>
    ELSE <<x[1] * 4 + (x[2] \div 16), (x[2] % 16) * 16 + (x[3] \div 4),
           (x[3] % 4) * 64 + x[4]>> \o BytesOf(SubSeq(x, 5, Len(x)))

\* Buffer.from(base64, 'base64')
BufferFrom(s) == BytesOf(SextetsOf(s))

\* `data:${mimeType};base64,${imageBytes}`
DataUrlOf(mime, b64) == DataPrefix \o mime \o Base64Marker \o b64

\* The characters of the image references the invocations carry;
\* String(undefined) is "undefined".
CharsOf(u) ==
    CASE u = "data:image/jpeg;base64,QUJD" ->
           <<"d", "a", "t", "a", ":", "i", "m", "a", "g", "e", "/", "j", "p", "e", "g", ";", "b", "a", "s", "e", "6", "4", ",", "Q", "U", "J", "D">>
      [] u = "data:nocomma" -> <<"d", "a", "t", "a", ":", "n", "o", "c", "o", "m", "m", "a">>
      [] u = "https://img/src.png" ->
           <<"h", "t", "t", "p", "s", ":", "/", "/", "i", "m", "g", "/", "s", "r", "c", ".", "p", "n", "g">>
      [] OTHER -> <<"u", "n", "d", "e", "f", "i", "n", "e", "d">>

----------------------------------------------------------------------------
(* Arguments *)

NoArgs == [given |-> FALSE, prompt |-> Undefined, image_url |-> Undefined,
           model |-> Undefined, aspect_ratio |-> Undefined,
           city |-> Undefined, country |-> Undefined, limit |-> << >>]

\* The limits a caller asks list_media for.
Limits == {0, 10, 50, 51}

ImageRefs == {"data:image/jpeg;base64,QUJD", "data:nocomma",
              "https://img/src.png"}

\* String(image_url).startsWith('data:')
IsDataUrl(u) == StartsWith(CharsOf(u), DataPrefix)
\* The split of the reference has a second piece.
HasComma(u) == SplitHasSecond(CharsOf(u))

\* The argument mappings tried for each tool; given = FALSE is a request
\* with no arguments member at all.
ArgsFor(t) ==
    {NoArgs} \cup
    CASE t \in {"generate_image"} ->
           { [NoArgs EXCEPT !.given = TRUE, !.prompt = p, !.model = m] :
               p \in Prompts \cup {Undefined},
               m \in {Undefined, "imagen", "gemini"} }
      [] t = "edit_image" ->
           { [NoArgs EXCEPT !.given = TRUE, !.prompt = p, !.image_url = u] :
               p \in Prompts \cup {Undefined},
               u \in ImageRefs \cup {Undefined} }
      [] t = "generate_video" ->
           { [NoArgs EXCEPT !.given = TRUE, !.prompt = p, !.image_url = u] :
               p \in Prompts \cup {Undefined},
               u \in ImageRefs \cup {Undefined} }
      [] t = "get_cultural_insights" ->
           { [NoArgs EXCEPT !.given = TRUE, !.city = c, !.country = k] :
               c \in {Undefined, "Lisbon"}, k \in {Undefined, "Portugal"} }
      [] t = "list_media" ->
           { [NoArgs EXCEPT !.given = TRUE, !.limit = l] :
               l \in {<< >>} \cup {<<n>> : n \in Limits} }
      [] OTHER -> { [NoArgs EXCEPT !.given = TRUE] }

\* The arguments a tool's schema marks required (index.ts:60,78,102,128).
Required(t) ==
    CASE t = "generate_image" -> {"prompt"}
      [] t = "edit_image" -> {"prompt", "image_url"}
      [] t = "generate_video" -> {"prompt"}
      [] t = "get_cultural_insights" -> {"city", "country"}
      [] OTHER -> {}

MissingRequired(t, a) == \E f \in Required(t) : a[f] = Undefined

Registered(c) == IF c.server = "index" THEN IndexTools ELSE StandaloneTools

----------------------------------------------------------------------------
(* Upstream responses.  Every await of a fetch, of response.json() or of   *)
(* an SDK call may reject; a fetch may also resolve with a non-success     *)
(* status; otherwise it carries one of the endpoint's bodies.              *)

NoBody == [none |-> TRUE]

Responses(bodies) ==
    { [kind |-> "reject", error |-> e, body |-> NoBody] : e \in Rejections }
    \cup { [kind |-> "notok", error |-> BadBody, body |-> NoBody],
           [kind |-> "badbody", error |-> BadBody, body |-> NoBody] }
    \cup { [kind |-> "ok", error |-> BadBody, body |-> b] : b \in bodies }

\* An SDK call resolves or rejects; it has no HTTP status of its own.
SdkResponses(bodies) ==
    { r \in Responses(bodies) : r.kind # "notok" }

\* {image: {url?, mimeType?, imageBytes?}} | {error}
ImageBodies ==
    [error : {Undefined, "quota exceeded"},
     url : HostedUrls \cup {Undefined},
     mimeType : {Undefined, "image/jpeg"},
     imageBytes : {Undefined, "QUJD"}]

\* {name: operationId}
StartBodies(i) == [name : {OpIdOf(i), Undefined}]

\* {done, response?, uris?}
PollBodies ==
    [done : BOOLEAN,
     file_uri : FileUris \cup {Undefined},
     uris0 : {"files/v2", Undefined}]

\* {url}
DownloadBodies == [url : {"https://x/v.mp4"}]

\* {analysis, raw?} | {error}
CulturalBodies ==
    [analysis : {Undefined, "analysis"}, error : {Undefined, "no data"}]

\* {media: [...]}: the items in the upstream's order, or no media member
\* at all.
Galleries == {<< >>, <<"dawn">>, <<"dawn", "dusk">>, <<"dusk", "dawn">>}
MediaBodies ==
    {[hasMedia |-> FALSE, media |-> << >>]} \cup
    [hasMedia : {TRUE}, media : Galleries]

\* result.response.candidates[0].content.parts: the first inlineData with
\* data, if any.
InlineBodies ==
    [mimeType : {Undefined, "image/jpeg"}, data : {Undefined, "QUJD"}]

\* resp.choices[0].message.content
ChatBodies == [content : {Undefined, "insights"}]

----------------------------------------------------------------------------
(* Steps shared by the handlers *)

Min(a, b) == IF a < b THEN a ELSE b

\* What a request carries besides the prompt: an image (a file or inline
\* data with its mime type, data that is undefined, or a URL) and the limit
\* parameter of a media query.
NoPayload ==
    [image |-> "none", mimeType |-> << >>, data |-> << >>, limit |-> << >>]

\* The bytes a remote image URL is answered with.
RemoteBytes == <<65>>

netVars == <<reqs, sent>>

\* A request wrapper that sends every request a second time.
IssueTwice(i, e, p) ==
    /\ reqs' = [reqs EXCEPT ![i][e] = Min(@ + 2, CountCap)]
    /\ sent' = [sent EXCEPT ![i] = p]

\* One more request to endpoint e by invocation i, carrying p.
Issue(i, e, p) ==
    /\ reqs' = [reqs EXCEPT ![i][e] = Min(@ + 1, CountCap)]
    /\ sent' = [sent EXCEPT ![i] = p]

\* The handler returns r to the transport.
Finish(i, r, f) ==
    /\ pc' = [pc EXCEPT ![i] = "done"]
    /\ result' = [result EXCEPT ![i] = r]
    /\ failed' = [failed EXCEPT ![i] = f]

\* An exception raised inside the try block reaches the catch block.
Throw(i, e) == Finish(i, CatchResult(config, e), TRUE)

Goto(i, p) ==
    /\ pc' = [pc EXCEPT ![i] = p]
    /\ UNCHANGED <<result, failed>>

\* const { ... } = args throws a TypeError when args is undefined.
DestructureError == Err(<<"Cannot destructure property of undefined">>)

videoVars == <<operationName, attempts, queries, delays, pollNames,
               startName, history>>
inputVars == <<config, tool, args>>

\* A switch whose default case falls into the last handler.
HandlerOfFallThrough(c, name) ==
    IF name \in Registered(c) THEN name ELSE "list_media"

\* The switch of the call-tool handler: the case a tool name selects.
HandlerOf(c, name) ==
    IF name \in Registered(c) THEN name ELSE "default"

AtCall(i, servers, handler) ==
    /\ pc[i] = "call"
    /\ config.server \in servers
    /\ HandlerOf(config, tool[i]) = handler

\* `data:${mimeType};base64,${imageBytes}`, as the pieces of a result text.
DataUrl(mime, bytes) == <<"data:", mime, ";base64,", bytes>>

\* A result that prefers the inline bytes to the hosted URL.
ImageUrlOfInlineFirst(b) ==
    IF b.imageBytes # Undefined THEN DataUrl(b.mimeType, b.imageBytes)
    ELSE <<b.url>>

\* image?.url || `data:${image?.mimeType};base64,${image?.imageBytes}`
ImageUrlOf(b) ==
    IF b.url # Undefined THEN <<b.url>> ELSE DataUrl(b.mimeType, b.imageBytes)

----------------------------------------------------------------------------
(* The call-tool handler's default case, both servers *)

CallUnknown(i) ==
    /\ pc[i] = "call"
    /\ HandlerOf(config, tool[i]) = "default"
    /\ Throw(i, Err(<<"Unknown tool: ", tool[i]>>))
    /\ UNCHANGED <<inputVars, videoVars, netVars>>

----------------------------------------------------------------------------
(* index.ts: generateVideo *)

\* A loop with no attempt budget.
LoopContinuesUnbounded(a) == TRUE

\* An off-by-one loop test.
LoopContinuesInclusive(a) == a <= maxAttempts

\* while (attempts < maxAttempts)
LoopContinues(a) == a < maxAttempts

\* A start call whose response is never checked for a name.
NameMissingUnchecked(n) == FALSE

\* if (!operationName)
NameMissing(n) == n = Undefined

\* An operation name kept in one place for all invocations.
PollRequestNameShared(i) == operationName[1]

\* body: JSON.stringify({ name: operationName })
PollRequestName(i) == operationName[i]

\* response.candidates[0].content.parts[0].file_data.file_uri || uris[0]
FileUriOf(b) == IF b.file_uri # Undefined THEN b.file_uri ELSE b.uris0

\* A loop that takes done without a file reference for a failure.
PollOutcomeStrict(r) ==
    CASE r.kind \in {"reject", "badbody"} -> "throw"
      [] r.kind = "notok" -> "miss"
      [] r.kind = "ok" /\ ~r.body.done -> "pending"
      [] r.kind = "ok" /\ r.body.done /\ FileUriOf(r.body) = Undefined
           -> "throw"
      [] OTHER -> "ready"

\* What one status response means to the loop.
PollOutcome(r) ==
    CASE r.kind \in {"reject", "badbody"} -> "throw"
      [] r.kind = "notok" -> "miss"
      [] r.kind = "ok" /\ ~r.body.done -> "pending"
      [] r.kind = "ok" /\ r.body.done /\ FileUriOf(r.body) = Undefined
           -> "noref"
      [] OTHER -> "ready"

\* The loop test, entered with a attempts counted: another delay, or the
\* timed-out result.
EnterLoop(i, a) ==
    IF LoopContinues(a)
    THEN Goto(i, "vid_delay")
    ELSE Finish(i, Envelope(TimedOutText(operationName[i])), FALSE)

\* The attempts so far, with one more that ended as outcome o.
Record(h, o) ==
    CASE o = "pending" -> h
      [] o = "noref" -> IF h = "mixed" THEN "mixed" ELSE "noref"
      [] OTHER -> "mixed"

\* attempts++ and the loop test.
NextAttempt(i, o) ==
    /\ attempts' = [attempts EXCEPT ![i] = @ + 1]
    /\ history' = [history EXCEPT ![i] = Record(@, o)]
    /\ EnterLoop(i, attempts[i] + 1)

\* The image fields of the start form: none when image_url is falsy;
\* imageBase64 (the second piece of the split, undefined when there is
\* none) and imageMimeType for a data URL; imageUrl otherwise.
VideoImageOf(u) ==
    IF u = Undefined THEN NoPayload
    ELSE IF IsDataUrl(u)
    THEN [image |-> IF HasComma(u) THEN "file" ELSE "undefined",
          mimeType |-> MimeTypeOf(HeaderOf(CharsOf(u))),
          data |-> IF HasComma(u) THEN Base64Of(CharsOf(u)) ELSE << >>,
          limit |-> << >>]
    ELSE [NoPayload EXCEPT !.image = "url"]

IndexGenerateVideo(i) ==
    /\ AtCall(i, {"index"}, "generate_video")
    /\ IF ~args[i].given
       THEN /\ Throw(i, DestructureError)
            /\ UNCHANGED netVars
       ELSE /\ Issue(i, "veo_generate", VideoImageOf(args[i].image_url))
            /\ Goto(i, "vid_start")
    /\ UNCHANGED <<inputVars, videoVars>>

VideoStartResponse(i) ==
    /\ pc[i] = "vid_start"
    /\ \E r \in Responses(StartBodies(i)) :
         CASE r.kind = "reject" ->
                /\ Throw(i, r.error)
                /\ UNCHANGED <<operationName, startName>>
           [] r.kind = "notok" ->
                /\ Throw(i, Err(<<"Generate API error: ", "500">>))
                /\ UNCHANGED <<operationName, startName>>
           [] r.kind = "badbody" ->
                /\ Throw(i, r.error)
                /\ UNCHANGED <<operationName, startName>>
           [] OTHER ->
                /\ startName' = [startName EXCEPT ![i] = r.body.name]
                /\ IF NameMissing(r.body.name)
                   THEN /\ Throw(i, Err(<<"No operation name returned from video generation">>))
                        /\ UNCHANGED operationName
                   ELSE /\ operationName' =
                             [operationName EXCEPT ![i] = r.body.name]
                        /\ IF LoopContinues(0)
                           THEN Goto(i, "vid_delay")
                           ELSE Finish(i, Envelope(TimedOutText(r.body.name)), FALSE)
    /\ UNCHANGED <<inputVars, attempts, queries, delays, pollNames,
                   history, netVars>>

\* The 10 s timer fires and the status query is sent.
VideoDelay(i) ==
    /\ pc[i] = "vid_delay"
    /\ delays' = [delays EXCEPT ![i] = @ + 1]
    /\ queries' = [queries EXCEPT ![i] = @ + 1]
    /\ pollNames' = [pollNames EXCEPT ![i] = @ \cup {PollRequestName(i)}]
    /\ Goto(i, "vid_poll")
    /\ UNCHANGED <<inputVars, operationName, attempts, startName,
                   history, netVars>>

\* The status query is answered by r.
PollStep(i, r) ==
    /\ pc[i] = "vid_poll"
    /\ LET o == PollOutcome(r) IN
       CASE o = "throw" ->
              /\ Throw(i, r.error)
              /\ UNCHANGED <<attempts, history, netVars>>
         [] o = "ready" ->
              /\ Issue(i, "veo_download", sent[i])
              /\ Goto(i, "vid_download")
              /\ UNCHANGED <<attempts, history>>
         [] OTHER ->
              /\ NextAttempt(i, o)
              /\ UNCHANGED netVars
    /\ UNCHANGED <<inputVars, operationName, queries, delays, pollNames,
                   startName>>

VideoPollResponse(i) ==
    /\ pc[i] = "vid_poll"
    /\ \E r \in Responses(PollBodies) : PollStep(i, r)

\* A loop that gives up on the first download that fails.
DownloadOutcomeFatal(r) ==
    IF r.kind = "ok" THEN "ok" ELSE "throw"

\* What one download response means to the loop.
DownloadOutcome(r) ==
    CASE r.kind \in {"reject", "badbody"} -> "throw"
      [] r.kind = "notok" -> "miss"
      [] OTHER -> "ok"

\* The download request is answered by r.
DownloadStep(i, r) ==
    /\ pc[i] = "vid_download"
    /\ CASE DownloadOutcome(r) = "throw" ->
              /\ Throw(i, r.error)
              /\ UNCHANGED <<attempts, history>>
         [] DownloadOutcome(r) = "miss" ->
              NextAttempt(i, "miss")
         [] OTHER ->
              /\ Finish(i, Envelope(CompletedText(args[i].prompt, r.body.url,
                            IF args[i].aspect_ratio = Undefined
                            THEN "16:9" ELSE args[i].aspect_ratio)), FALSE)
              /\ UNCHANGED <<attempts, history>>
    /\ UNCHANGED <<inputVars, operationName, queries, delays, pollNames,
                   startName, netVars>>

VideoDownloadResponse(i) ==
    /\ pc[i] = "vid_download"
    /\ \E r \in Responses(DownloadBodies) : DownloadStep(i, r)

----------------------------------------------------------------------------
(* index.ts: generateImage, editImage, getCulturalInsights, listMedia *)

\* model === 'imagen' ? '/api/imagen/generate' : '/api/gemini/generate'
ImageEndpoint(a) ==
    IF a.model = "imagen" THEN "imagen_generate" ELSE "gemini_generate"

ModelOf(a) == IF a.model = Undefined THEN "gemini" ELSE a.model

IndexGenerateImage(i) ==
    /\ AtCall(i, {"index"}, "generate_image")
    /\ IF ~args[i].given
       THEN /\ Throw(i, DestructureError)
            /\ UNCHANGED netVars
       ELSE /\ Issue(i, ImageEndpoint(args[i]), NoPayload)
            /\ Goto(i, "img_fetch")
    /\ UNCHANGED <<inputVars, videoVars>>

\* The tail shared by generateImage and editImage: status, body, error
\* field, then the success text.
ImageResult(i, r, notok, head) ==
    CASE r.kind \in {"reject", "badbody"} -> Throw(i, r.error)
      [] r.kind = "notok" -> Throw(i, Err(notok))
      [] r.kind = "ok" /\ r.body.error # Undefined ->
           Throw(i, Err(<<r.body.error>>))
      [] OTHER ->
           Finish(i, Envelope(head \o <<args[i].prompt, "URL: ">>
                                   \o ImageUrlOf(r.body)), FALSE)

\* The generate request is answered by r.
ImageStep(i, r) ==
    /\ pc[i] = "img_fetch"
    /\ ImageResult(i, r, <<"API error: ", "500">>,
                   <<"Image generated successfully using ",
                     ModelOf(args[i]), "Prompt: ">>)
    /\ UNCHANGED <<inputVars, videoVars, netVars>>

ImageResponse(i) ==
    /\ pc[i] = "img_fetch"
    /\ \E r \in Responses(ImageBodies) : ImageStep(i, r)

\* The image file editImage builds from a data URL.
FileOf(u) ==
    [image |-> "file", mimeType |-> MimeTypeOf(HeaderOf(CharsOf(u))),
     data |-> BufferFrom(Base64Of(CharsOf(u))), limit |-> << >>]

\* The image file editImage builds from a fetched image.
FetchedFile ==
    [image |-> "file", mimeType |-> ImagePng, data |-> RemoteBytes,
     limit |-> << >>]

IndexEditImage(i) ==
    /\ AtCall(i, {"index"}, "edit_image")
    /\ LET u == args[i].image_url IN
       CASE ~args[i].given ->
              /\ Throw(i, DestructureError)
              /\ UNCHANGED netVars
         [] args[i].given /\ IsDataUrl(u) /\ HasComma(u) ->
              /\ Issue(i, "gemini_edit", FileOf(u))
              /\ Goto(i, "edit_fetch")
         [] args[i].given /\ IsDataUrl(u) /\ ~HasComma(u) ->
              \* Buffer.from(undefined, 'base64') throws a TypeError
              /\ Throw(i, Err(<<"The first argument must be of type string">>))
              /\ UNCHANGED netVars
         [] args[i].given /\ ~IsDataUrl(u) /\ u = Undefined ->
              \* fetch("undefined") rejects before any request is sent
              /\ Throw(i, Err(<<"Failed to parse URL from undefined">>))
              /\ UNCHANGED netVars
         [] OTHER ->
              /\ Issue(i, "remote_image", NoPayload)
              /\ Goto(i, "edit_src")
    /\ UNCHANGED <<inputVars, videoVars>>

EditSourceResponse(i) ==
    /\ pc[i] = "edit_src"
    /\ config.server = "index"
    /\ \E r \in Responses({NoBody}) :
         CASE r.kind \in {"reject", "badbody"} ->
                /\ Throw(i, r.error)
                /\ UNCHANGED netVars
           [] r.kind = "notok" ->
                /\ Throw(i, Err(<<"Failed to fetch image: ", "Not Found">>))
                /\ UNCHANGED netVars
           [] OTHER ->
                /\ Issue(i, "gemini_edit", FetchedFile)
                /\ Goto(i, "edit_fetch")
    /\ UNCHANGED <<inputVars, videoVars>>

\* The edit request is answered by r.
EditStep(i, r) ==
    /\ pc[i] = "edit_fetch"
    /\ ImageResult(i, r, <<"API error: ", "500">>,
                   <<"Image edited successfully", "Edit instructions: ">>)
    /\ UNCHANGED <<inputVars, videoVars, netVars>>

EditResponse(i) ==
    /\ pc[i] = "edit_fetch"
    /\ \E r \in Responses(ImageBodies) : EditStep(i, r)

IndexCulturalInsights(i) ==
    /\ AtCall(i, {"index"}, "get_cultural_insights")
    /\ IF ~args[i].given
       THEN /\ Throw(i, DestructureError)
            /\ UNCHANGED netVars
       ELSE /\ Issue(i, "cultural", NoPayload)
            /\ Goto(i, "cult_fetch")
    /\ UNCHANGED <<inputVars, videoVars>>

CulturalResponse(i) ==
    /\ pc[i] = "cult_fetch"
    /\ \E r \in Responses(CulturalBodies) :
         CASE r.kind \in {"reject", "badbody"} -> Throw(i, r.error)
           [] r.kind = "notok" ->
                Throw(i, Err(<<"Cultural API error: ", "500">>))
           [] r.kind = "ok" /\ r.body.analysis = Undefined ->
                Throw(i, Err(<<IF r.body.error # Undefined THEN r.body.error
                               ELSE "Cultural analysis failed">>))
           [] OTHER ->
                Finish(i, Envelope(<<"Cultural Insights for ", args[i].city,
                                     args[i].country, r.body.analysis>>), FALSE)
    /\ UNCHANGED <<inputVars, videoVars, netVars>>

\* const { type = 'all', limit = 10 } = args
LimitOf(a) == IF a.limit = << >> THEN 10 ELSE a.limit[1]

\* params.append('limit', String(limit))
MediaQuery(a) == [NoPayload EXCEPT !.limit = <<Str(LimitOf(a))>>]

IndexListMedia(i) ==
    /\ AtCall(i, {"index"}, "list_media")
    /\ IF ~args[i].given
       THEN /\ Throw(i, DestructureError)
            /\ UNCHANGED netVars
       ELSE /\ Issue(i, "media", MediaQuery(args[i]))
            /\ Goto(i, "list_fetch")
    /\ UNCHANGED <<inputVars, videoVars>>

\* const media = data.media || []
MediaOf(b) == IF b.hasMedia THEN b.media ELSE << >>

\* A gallery text that lists the newest item first.
GalleryTextReversed(media) ==
    <<"Gallery (", Str(Len(media)), " items)">> \o
    [k \in 1..(2 * Len(media)) |->
       IF k % 2 = 1 THEN Str((k + 1) \div 2)
       ELSE media[Len(media) + 1 - (k \div 2)]]

\* `Gallery (${media.length} items)` and the items, each under its number.
GalleryText(media) ==
    <<"Gallery (", Str(Len(media)), " items)">> \o
    [k \in 1..(2 * Len(media)) |->
       IF k % 2 = 1 THEN Str((k + 1) \div 2) ELSE media[k \div 2]]

\* The media query is answered by r.
ListStep(i, r) ==
    /\ pc[i] = "list_fetch"
    /\ CASE r.kind \in {"reject", "badbody"} -> Throw(i, r.error)
         [] r.kind = "notok" -> Throw(i, Err(<<"Media API error: ", "500">>))
         [] r.kind = "ok" /\ Len(MediaOf(r.body)) = 0 ->
              Finish(i, Envelope(<<"No media found in gallery">>), FALSE)
         [] OTHER ->
              Finish(i, Envelope(GalleryText(MediaOf(r.body))), FALSE)
    /\ UNCHANGED <<inputVars, videoVars, netVars>>

ListResponse(i) ==
    /\ pc[i] = "list_fetch"
    /\ \E r \in Responses(MediaBodies) : ListStep(i, r)

----------------------------------------------------------------------------
(* standalone.ts and the hosted server of src/unnamed/part_000, whose      *)
(* three tool callbacks repeat standalone.ts: generateImage, editImage,    *)
(* getCulturalInsights                                                     *)

\* The first part with inlineData.data, or 'No ... ' thrown.
InlineResult(i, r, none, head) ==
    CASE r.kind \in {"reject", "badbody"} -> Throw(i, r.error)
      [] r.kind = "ok" /\ r.body.data = Undefined -> Throw(i, Err(none))
      [] OTHER ->
           Finish(i, Envelope(head \o <<args[i].prompt>>
                     \o DataUrl(IF r.body.mimeType = Undefined
                                THEN "image/png" ELSE r.body.mimeType,
                                r.body.data)), FALSE)

StandaloneGenerateImage(i) ==
    /\ AtCall(i, SdkServers, "generate_image")
    /\ IF args[i].prompt = Undefined
       THEN /\ Throw(i, Err(<<"Missing prompt">>))
            /\ UNCHANGED netVars
       ELSE /\ Issue(i, "sdk_generate", NoPayload)
            /\ Goto(i, "sa_img")
    /\ UNCHANGED <<inputVars, videoVars>>

\* The generateContent call is answered by r.
StandaloneImageStep(i, r) ==
    /\ pc[i] = "sa_img"
    /\ InlineResult(i, r, <<"No image generated">>,
                    <<IF args[i].model = "imagen"
                      THEN "Image (Gemini fallback for Imagen)"
                      ELSE "Gemini image", "Prompt: ">>)
    /\ UNCHANGED <<inputVars, videoVars, netVars>>

StandaloneImageResponse(i) ==
    /\ pc[i] = "sa_img"
    /\ \E r \in SdkResponses(InlineBodies) : StandaloneImageStep(i, r)

\* The inlineData editImage builds from a data URL: the second piece of
\* the split as it is (undefined when there is none).
InlineDataOf(u) ==
    [image |-> IF HasComma(u) THEN "file" ELSE "undefined",
     mimeType |-> MimeTypeOf(HeaderOf(CharsOf(u))),
     data |-> IF HasComma(u) THEN Base64Of(CharsOf(u)) ELSE << >>,
     limit |-> << >>]

\* The inlineData editImage builds from a fetched image.
FetchedInlineData ==
    [image |-> "file", mimeType |-> ImagePng, data |-> ToBase64(RemoteBytes),
     limit |-> << >>]

StandaloneEditImage(i) ==
    /\ AtCall(i, SdkServers, "edit_image")
    /\ LET u == args[i].image_url IN
       CASE args[i].prompt = Undefined \/ u = Undefined ->
              /\ Throw(i, Err(<<"Missing prompt or image_url">>))
              /\ UNCHANGED netVars
         [] args[i].prompt # Undefined /\ u # Undefined /\ IsDataUrl(u) ->
              /\ Issue(i, "sdk_generate", InlineDataOf(u))
              /\ Goto(i, "sa_edit")
         [] OTHER ->
              /\ Issue(i, "remote_image", NoPayload)
              /\ Goto(i, "sa_edit_src")
    /\ UNCHANGED <<inputVars, videoVars>>

StandaloneEditSourceResponse(i) ==
    /\ pc[i] = "sa_edit_src"
    /\ \E r \in Responses({NoBody}) :
         CASE r.kind \in {"reject", "badbody"} ->
                /\ Throw(i, r.error)
                /\ UNCHANGED netVars
           [] r.kind = "notok" ->
                /\ Throw(i, Err(<<"Failed to fetch image: ", "404">>))
                /\ UNCHANGED netVars
           [] OTHER ->
                /\ Issue(i, "sdk_generate", FetchedInlineData)
                /\ Goto(i, "sa_edit")
    /\ UNCHANGED <<inputVars, videoVars>>

\* The generateContent call of editImage is answered by r.
StandaloneEditStep(i, r) ==
    /\ pc[i] = "sa_edit"
    /\ InlineResult(i, r, <<"No edited image returned">>,
                    <<"Edited image", "Instructions: ">>)
    /\ UNCHANGED <<inputVars, videoVars, netVars>>

StandaloneEditResponse(i) ==
    /\ pc[i] = "sa_edit"
    /\ \E r \in SdkResponses(InlineBodies) : StandaloneEditStep(i, r)

\* A server that takes the chat client for granted.
HasChatClientAlways(c) == TRUE

\* if (!openai)
HasChatClient(c) == c.openai

\* The message thrown when there is no chat client.
ChatKeyMissing(c) ==
    IF c.server = "smithery" THEN "OpenAI API key not configured"
    ELSE "OPENAI_API_KEY not set on server"

StandaloneCulturalInsights(i) ==
    /\ AtCall(i, SdkServers, "get_cultural_insights")
    /\ CASE args[i].city = Undefined \/ args[i].country = Undefined ->
              /\ Throw(i, Err(<<"Missing city or country">>))
              /\ UNCHANGED netVars
         [] args[i].city # Undefined /\ args[i].country # Undefined
              /\ ~HasChatClient(config) ->
              /\ Throw(i, Err(<<ChatKeyMissing(config)>>))
              /\ UNCHANGED netVars
         [] OTHER ->
              /\ Issue(i, "chat", NoPayload)
              /\ Goto(i, "sa_chat")
    /\ UNCHANGED <<inputVars, videoVars>>

StandaloneChatResponse(i) ==
    /\ pc[i] = "sa_chat"
    /\ \E r \in SdkResponses(ChatBodies) :
         CASE r.kind \in {"reject", "badbody"} -> Throw(i, r.error)
           [] OTHER ->
                Finish(i, Envelope(<<IF r.body.content = Undefined
                                     THEN "No insights generated"
                                     ELSE r.body.content>>), FALSE)
    /\ UNCHANGED <<inputVars, videoVars, netVars>>

----------------------------------------------------------------------------
(* The data-URL round trip: an image is written as a data URL the way the  *)
(* handlers write their results, and the data URL is read back the way     *)
(* editImage reads its image_url.                                          *)

MimeChars == {"a", "/", ";", ","}
ByteValues == {0, 65, 255}

SeqsUpTo(S, n) == UNION {[1..k -> S] : k \in 0..n}

NoImage == [mimeType |-> << >>, bytes |-> << >>]

CodecIdle ==
    /\ stage = "idle"
    /\ image = NoImage
    /\ imageUrl = << >>
    /\ mimeType = << >>
    /\ buffer = << >>

\* The image bytes arrive base64-encoded and are put into the template.
EncodeAsDataUrl ==
    /\ stage = "image"
    /\ imageUrl' = DataUrlOf(image.mimeType, ToBase64(image.bytes))
    /\ stage' = "encoded"
    /\ UNCHANGED <<image, mimeType, buffer>>

\* editImage's reading of a reference that starts with 'data:'.
DecodeImageReference ==
    /\ stage = "encoded"
    /\ StartsWith(imageUrl, DataPrefix)
    /\ SplitHasSecond(imageUrl)
    /\ mimeType' = MimeTypeOf(HeaderOf(imageUrl))
    /\ buffer' = BufferFrom(Base64Of(imageUrl))
    /\ stage' = "decoded"
    /\ UNCHANGED <<image, imageUrl>>

----------------------------------------------------------------------------
(* The state machine *)

Fresh(live) ==
    /\ pc = [i \in Inv |-> IF i \in live THEN "call" ELSE "absent"]
    /\ operationName = [i \in Inv |-> Undefined]
    /\ attempts = [i \in Inv |-> 0]
    /\ result = [i \in Inv |-> NoResult]
    /\ failed = [i \in Inv |-> FALSE]
    /\ reqs = [i \in Inv |-> [e \in Endpoints |-> 0]]
    /\ queries = [i \in Inv |-> 0]
    /\ delays = [i \in Inv |-> 0]
    /\ pollNames = [i \in Inv |-> {}]
    /\ startName = [i \in Inv |-> Undefined]
    /\ sent = [i \in Inv |-> NoPayload]
    /\ history = [i \in Inv |-> "pending"]
    /\ CodecIdle

\* The hosted server registers each callback with its schema, and the
\* callback runs for a registered name and arguments the schema accepts;
\* the other two servers hand every request to their handler.
Dispatched(c, t, a) ==
    c.server = "smithery" =>
      (t \in Registered(c) /\ a.given /\ ~MissingRequired(t, a))

\* One invocation, of any tool name with any of its argument mappings.
Init ==
    /\ config \in Configs
    /\ \E t \in ToolNames : \E a \in ArgsFor(t) :
         /\ Dispatched(config, t, a)
         /\ tool = [i \in Inv |-> IF i = 1 THEN t ELSE "none"]
         /\ args = [i \in Inv |-> IF i = 1 THEN a ELSE NoArgs]
    /\ Fresh({1})

\* The arguments of an invocation that runs beside others: the tool's
\* required arguments supplied.
FullArgs(t) ==
    [NoArgs EXCEPT !.given = TRUE, !.prompt = "a red fox",
                   !.image_url = IF t = "edit_image"
                                 THEN "https://img/src.png" ELSE Undefined,
                   !.city = "Lisbon", !.country = "Portugal"]

\* NInv invocations in flight together.
InitConcurrent ==
    /\ config \in Configs
    /\ tool \in [Inv -> ToolNames]
    /\ \A i \in Inv : Dispatched(config, tool[i], FullArgs(tool[i]))
    /\ args = [i \in Inv |-> FullArgs(tool[i])]
    /\ Fresh(Inv)

Step(i) ==
    \/ CallUnknown(i)
    \/ IndexGenerateImage(i)
    \/ ImageResponse(i)
    \/ IndexEditImage(i)
    \/ EditSourceResponse(i)
    \/ EditResponse(i)
    \/ IndexGenerateVideo(i)
    \/ VideoStartResponse(i)
    \/ VideoDelay(i)
    \/ VideoPollResponse(i)
    \/ VideoDownloadResponse(i)
    \/ IndexCulturalInsights(i)
    \/ CulturalResponse(i)
    \/ IndexListMedia(i)
    \/ ListResponse(i)
    \/ StandaloneGenerateImage(i)
    \/ StandaloneImageResponse(i)
    \/ StandaloneEditImage(i)
    \/ StandaloneEditSourceResponse(i)
    \/ StandaloneEditResponse(i)
    \/ StandaloneCulturalInsights(i)
    \/ StandaloneChatResponse(i)

Next == (\E i \in Inv : Step(i)) /\ UNCHANGED codecVars

Spec == Init /\ [][Next]_vars

SpecConcurrent == InitConcurrent /\ [][Next]_vars

\* Every upstream request is answered and every delay ends: an invocation
\* that can take a step takes one.
SpecFair == Spec /\ \A i \in Inv : WF_vars(Step(i) /\ UNCHANGED codecVars)

\* The round trip alone: no invocation is in flight.
InitDataUrl ==
    /\ config \in Configs
    /\ tool = [i \in Inv |-> "none"]
    /\ args = [i \in Inv |-> NoArgs]
    /\ pc = [i \in Inv |-> "absent"]
    /\ operationName = [i \in Inv |-> Undefined]
    /\ attempts = [i \in Inv |-> 0]
    /\ result = [i \in Inv |-> NoResult]
    /\ failed = [i \in Inv |-> FALSE]
    /\ reqs = [i \in Inv |-> [e \in Endpoints |-> 0]]
    /\ queries = [i \in Inv |-> 0]
    /\ delays = [i \in Inv |-> 0]
    /\ pollNames = [i \in Inv |-> {}]
    /\ startName = [i \in Inv |-> Undefined]
    /\ sent = [i \in Inv |-> NoPayload]
    /\ history = [i \in Inv |-> "pending"]
    /\ stage = "image"
    /\ image \in [mimeType : SeqsUpTo(MimeChars, MaxMimeLen),
                  bytes : SeqsUpTo(ByteValues, MaxBytes)]
    /\ imageUrl = << >>
    /\ mimeType = << >>
    /\ buffer = << >>

NextDataUrl ==
    (EncodeAsDataUrl \/ DecodeImageReference) /\ UNCHANGED handlerVars

SpecDataUrl == InitDataUrl /\ [][NextDataUrl]_vars

----------------------------------------------------------------------------
(* Properties *)

Returned(i) == pc[i] = "done"
Text(i) == TextOf(result[i])
NoRequests(i) == queries[i] = 0 /\ \A e \in Endpoints : reqs[i][e] = 0
Carries(text, token) == \E k \in 1..Len(text) : text[k] = token
IsCompleted(r) ==
    /\ r.kind = "envelope"
    /\ TextOf(r)[1] = "Video generated successfully"
IsTimedOut(r) ==
    /\ r.kind = "envelope"
    /\ TextOf(r)[1] =
         "Video generation started but timed out waiting for completion."

\* C1: whatever the tool name, the arguments and the upstream's answers or
\* rejections (a non-Error value included), the handler never lets an
\* exception reach the transport; what it returns holds exactly one text
\* block; and when an exception was raised in a handler the text begins
\* with "Error: ".
C1_AlwaysAnEnvelope ==
    \A i \in Inv :
      /\ result[i].kind # "fault"
      /\ Returned(i) =>
           /\ result[i].kind = "envelope"
           /\ Len(result[i].content) = 1
           /\ result[i].content[1].type = "text"
           /\ failed[i] => IsErrorText(Text(i))

\* A status query rejected with a non-Error value, rendered by index.ts.
C1_Witness ==
    \E i \in Inv :
      /\ Returned(i) /\ failed[i] /\ queries[i] >= 1
      /\ Text(i) = <<"Error: ", "Unknown error">>

\* C2: an invocation whose tool name the server does not register issues no
\* upstream request at any time, runs no handler, and returns a text
\* beginning with "Error:".
C2_UnknownToolNoRequest ==
    \A i \in Inv :
      (pc[i] # "absent" /\ tool[i] \notin Registered(config)) =>
        /\ NoRequests(i)
        /\ pc[i] \in {"call", "done"}
        /\ Returned(i) => IsErrorText(Text(i))

C2_Witness ==
    \E i \in Inv :
      /\ Returned(i) /\ tool[i] = "generate_video"
      /\ config.server = "standalone"
      /\ Text(i) = <<"Error: ", "Unknown tool: ", "generate_video">>

\* C3: an invocation of a registered tool that omits a required argument
\* issues no upstream request at any time and returns a text beginning with
\* "Error:".
C3_MissingArgumentNoRequest ==
    \A i \in Inv :
      (pc[i] # "absent" /\ tool[i] \in Registered(config)
         /\ MissingRequired(tool[i], args[i])) =>
        /\ NoRequests(i)
        /\ Returned(i) => IsErrorText(Text(i))

\* The 30th status query of invocation i is out and each of the 29 attempts
\* before it ended on a status of not done.
ThirtiethAfterPending(i) ==
    queries[i] = 30 /\ attempts[i] = 29 /\ history[i] = "pending"

\* An invocation never issues a 31st status query, and one that returns the
\* timed-out text has issued exactly 30.
ThirtyQueries ==
    \A i \in Inv :
      /\ queries[i] <= 30
      /\ (Returned(i) /\ IsTimedOut(result[i])) => queries[i] = 30

\* C4 as stated: when the status query reports Pending 29 times and done
\* with a file reference the 30th time, the invocation returns the
\* completed result; and an invocation that never completes returns the
\* timed-out result after exactly 30 status queries.
C4_AsStated ==
    /\ []ThirtyQueries
    /\ [][\A i \in Inv :
            (ThirtiethAfterPending(i) /\ pc[i] = "vid_download"
               /\ Returned(i)')
            => IsCompleted(result'[i])]_vars

\* C4 as amended: the same, for a 30th attempt whose download request is
\* answered with success.
C4_ThirtiethAttemptCounts ==
    /\ []ThirtyQueries
    /\ [][\A i \in Inv : \A r \in Responses(DownloadBodies) :
            (ThirtiethAfterPending(i) /\ r.kind = "ok" /\ DownloadStep(i, r))
            => (Returned(i)' /\ IsCompleted(result'[i]))]_vars

C4_Witness ==
    \E i \in Inv :
      /\ ThirtiethAfterPending(i)
      /\ Returned(i) /\ IsCompleted(result[i])

\* A status query that failed at the transport: the request rejected, or a
\* non-success status.
TransportMiss(r) == r.kind \in {"reject", "notok"}

\* Invocation i goes on to its next attempt (or, the budget spent, to the
\* timed-out result) without having failed.
Continues(i) ==
    /\ attempts'[i] = attempts[i] + 1
    /\ ~failed'[i]
    /\ \/ pc'[i] = "vid_delay"
       \/ attempts'[i] = maxAttempts /\ Returned(i)' /\ IsTimedOut(result'[i])

\* C5: a status query that fails at the transport (the request rejects, or
\* the status is not a success) costs one attempt and the loop goes on.
C5_TransportMissContinues ==
    [][\A i \in Inv : \A r \in Responses(PollBodies) :
         (TransportMiss(r) /\ PollStep(i, r)) => Continues(i)]_vars

\* C6: a status response of done with no file reference is taken as
\* Pending: no download request is issued, the attempt counter advances by
\* one, and the invocation neither completes nor fails on it.
C6_DoneWithoutFileIsPending ==
    [][\A i \in Inv : \A r \in Responses(PollBodies) :
         (r.kind = "ok" /\ r.body.done /\ FileUriOf(r.body) = Undefined
            /\ PollStep(i, r))
         => /\ Continues(i)
            /\ reqs'[i] = reqs[i]
            /\ ~IsCompleted(result'[i])]_vars

\* Every attempt so far was Pending or done with no file reference, one at
\* least the latter, and the loop is waiting for its next query.
C6_Witness ==
    \E i \in Inv :
      /\ pc[i] = "vid_delay" /\ history[i] = "noref" /\ attempts[i] = 3
      /\ reqs[i]["veo_download"] = 0

\* C7: an invocation that spends its whole attempt budget returns a text
\* that carries the operation name its own start call was answered with,
\* and that text is not an "Error:" text.
C7_TimedOutCarriesOperation ==
    \A i \in Inv :
      (Returned(i) /\ attempts[i] >= 30) =>
        /\ startName[i] # Undefined
        /\ Carries(Text(i), startName[i])
        /\ IsTimedOut(result[i])
        /\ ~IsErrorText(Text(i))

C7_Witness ==
    \E i \in Inv :
      /\ Returned(i) /\ attempts[i] = 30 /\ queries[i] = 30
      /\ Text(i) = TimedOutText(OpIdOf(i))

\* Everything an invocation reads or writes.
Local(i) ==
    <<tool[i], args[i], pc[i], operationName[i], attempts[i], result[i],
      failed[i], reqs[i], queries[i], delays[i], pollNames[i], startName[i],
      sent[i], history[i]>>

\* The attempt counter of invocation i counts the status queries of i, and
\* each of them followed a delay of i.
OwnCounter(i) ==
    /\ delays[i] = queries[i]
    /\ queries[i] = attempts[i]
                    + (IF pc[i] \in {"vid_poll", "vid_download"} THEN 1 ELSE 0)
       \/ (Returned(i) /\ queries[i] = attempts[i] + 1)

\* Every status query of invocation i carried the operation name the start
\* call of i was answered with.
OwnOperation(i) ==
    /\ pollNames[i] \subseteq {startName[i]}
    /\ Undefined \notin pollNames[i]
    /\ queries[i] >= 1 => pollNames[i] = {OpIdOf(i)}

\* What invocation i returned follows from its own requests alone.
OwnResult(i) ==
    Returned(i) =>
      /\ IsTimedOut(result[i]) =>
           queries[i] = 30 /\ Carries(Text(i), startName[i])
      /\ IsCompleted(result[i]) => reqs[i]["veo_download"] >= 1

\* C8: invocations in flight together are independent: a step changes what
\* one invocation reads or writes and nothing of any other; the attempt
\* counter and the operation name of an invocation are its own, every
\* status query carries the name its own start call returned, and its
\* result rests on its own queries.
C8_InvocationsIndependent ==
    /\ [](\A i \in Inv : OwnCounter(i) /\ OwnOperation(i) /\ OwnResult(i))
    /\ [][\A i, j \in Inv :
            i # j => (Local(i)' = Local(i) \/ Local(j)' = Local(j))]_vars

\* Two poll loops suspended together, at different attempts, each with its
\* own operation name.
C8_Witness ==
    \E i, j \in Inv :
      /\ i # j
      /\ pc[i] = "vid_poll" /\ attempts[i] = 2 /\ pollNames[i] = {OpIdOf(i)}
      /\ pc[j] = "vid_delay" /\ attempts[j] = 1 /\ pollNames[j] = {OpIdOf(j)}

\* C9 as stated: within one invocation every endpoint but the status
\* endpoint is requested at most once.
C9_AsStated ==
    \A i \in Inv : \A e \in Endpoints : reqs[i][e] <= 1

\* C9 as amended: every endpoint but the status and the download endpoints
\* is requested at most once; a download request is issued only on the
\* answer to a status query, one at most per query.
C9_RetryOnlyInPollLoop ==
    /\ [](\A i \in Inv :
            /\ \A e \in Endpoints \ {"veo_download"} : reqs[i][e] <= 1
            /\ reqs[i]["veo_download"] <= queries[i])
    /\ [][\A i \in Inv :
            reqs'[i]["veo_download"] # reqs[i]["veo_download"] =>
              /\ pc[i] = "vid_poll"
              /\ reqs'[i]["veo_download"] = reqs[i]["veo_download"] + 1]_vars

\* The download asked for a second time, after a first one failed.
C9_Witness ==
    \E i \in Inv :
      /\ pc[i] = "vid_download" /\ reqs[i]["veo_download"] = 2
      /\ attempts[i] = 1 /\ reqs[i]["veo_generate"] = 1

\* The start call of invocation i has been answered, and the answer gave
\* no operation name (a non-success status, a rejection, or a body without
\* one).
StartGaveNoName(i) ==
    /\ reqs[i]["veo_generate"] >= 1
    /\ pc[i] # "vid_start"
    /\ startName[i] = Undefined

\* C10: when the start call is answered without an operation name, or with
\* a non-success status, generate_video returns an "Error:" text and issues
\* no status query and no download request.
C10_NoNameNoPolling ==
    \A i \in Inv :
      StartGaveNoName(i) =>
        /\ Returned(i) /\ IsErrorText(Text(i))
        /\ queries[i] = 0 /\ delays[i] = 0
        /\ reqs[i]["veo_download"] = 0

C10_Witness ==
    \E i \in Inv :
      /\ StartGaveNoName(i)
      /\ Text(i) = <<"Error: ",
                     "No operation name returned from video generation">>

\* A mime type as the round trip can carry it: not empty, and with no ';'
\* and no ',' in it.
PlainMime(m) == Len(m) >= 1 /\ \A k \in 1..Len(m) : m[k] \notin {";", ","}

RoundTrips == mimeType = image.mimeType /\ buffer = image.bytes

\* C14 as stated: for any bytes and any mime type, the data URL built from
\* them reads back as the same bytes and the same mime type.
C14_AsStated == stage = "decoded" => RoundTrips

\* C14 as amended: the same, for any bytes and any mime type that is not
\* empty and holds neither ';' nor ','.
C14_DecodeInvertsEncode ==
    (stage = "decoded" /\ PlainMime(image.mimeType)) => RoundTrips

C14_Witness ==
    /\ stage = "decoded"
    /\ image = [mimeType |-> <<"a", "/", "a">>, bytes |-> <<255, 0, 65>>]
    /\ imageUrl = DataPrefix \o <<"a", "/", "a">> \o Base64Marker
                  \o <<"/", "w", "B", "B">>
    /\ RoundTrips

\* The response has no image in it: no hosted URL and no inline bytes.
NoImagePayload(b) == b.url = Undefined /\ b.imageBytes = Undefined

\* C11: generate_image returns an "Error:" text whenever the upstream's
\* answer reports an error field or holds no image (no hosted URL and no
\* inline bytes); it never returns a success text for such an answer.
C11_NoImageIsAnError ==
    [][\A i \in Inv :
         /\ \A r \in Responses(ImageBodies) :
              (r.kind = "ok" /\ ImageStep(i, r)
                 /\ (r.body.error # Undefined \/ NoImagePayload(r.body)))
              => IsErrorText(TextOf(result'[i]))
         /\ \A r \in SdkResponses(InlineBodies) :
              (r.kind = "ok" /\ StandaloneImageStep(i, r)
                 /\ r.body.data = Undefined)
              => IsErrorText(TextOf(result'[i]))]_vars

\* C12: in the success text of generate_image and of edit_image a hosted
\* URL of the response stands alone, whatever inline bytes came with it; a
\* data URL is written only for a response with no hosted URL; and the text
\* carries the prompt of the invocation.
C12_HostedUrlFirst ==
    [][\A i \in Inv :
         /\ \A r \in Responses(ImageBodies) :
              (r.kind = "ok" /\ r.body.error = Undefined
                 /\ (ImageStep(i, r) \/ EditStep(i, r)))
              => LET text == TextOf(result'[i]) IN
                 /\ ~IsErrorText(text)
                 /\ Carries(text, args[i].prompt)
                 /\ r.body.url # Undefined =>
                      /\ Carries(text, r.body.url)
                      /\ ~Carries(text, "data:")
                 /\ Carries(text, "data:") =>
                      /\ r.body.url = Undefined
                      /\ text[Len(text) - 3] = "data:"
                      /\ SubSeq(text, Len(text) - 2, Len(text)) =
                           <<r.body.mimeType, ";base64,", r.body.imageBytes>>
         /\ \A r \in SdkResponses(InlineBodies) :
              (r.kind = "ok" /\ r.body.data # Undefined
                 /\ (StandaloneImageStep(i, r) \/ StandaloneEditStep(i, r)))
              => LET text == TextOf(result'[i]) IN
                 /\ ~IsErrorText(text)
                 /\ Carries(text, args[i].prompt)
                 /\ Carries(text, "data:")]_vars

\* The end-to-end scenario: generate_image {prompt: "a red fox", model:
\* "gemini"} answered with a hosted URL.
C12_Witness ==
    \E i \in Inv :
      /\ Returned(i) /\ tool[i] = "generate_image"
      /\ args[i].prompt = "a red fox" /\ args[i].model = "gemini"
      /\ reqs[i]["gemini_generate"] = 1
      /\ Text(i) = <<"Image generated successfully using ", "gemini",
                     "Prompt: ", "a red fox", "URL: ", "https://x/y.png">>

\* An image reference that starts with 'data:' and has no comma.
Malformed(u) == IsDataUrl(u) /\ ~HasComma(u)

\* The requests that carry an image to edit or to animate.
ImageRequests == {"gemini_edit", "sdk_generate", "veo_generate"}

\* C13: an edit_image or generate_video invocation whose image reference
\* starts with 'data:' and has no comma sends no edit or generation
\* request, none with undefined image data in particular, and returns an
\* "Error:" text that is not the text of the TypeError Buffer.from raises
\* for an undefined argument.
C13_MalformedReferenceRejected ==
    \A i \in Inv :
      (pc[i] # "absent" /\ tool[i] \in {"edit_image", "generate_video"}
         /\ tool[i] \in Registered(config)
         /\ args[i].prompt # Undefined /\ Malformed(args[i].image_url)) =>
        /\ \A e \in ImageRequests : reqs[i][e] = 0
        /\ sent[i].image # "undefined"
        /\ Returned(i) =>
             /\ IsErrorText(Text(i))
             /\ ~Carries(Text(i), "The first argument must be of type string")

\* The invocation names city and country, and its server calls the chat
\* client itself and has none.
NoChatCredential(i) ==
    /\ pc[i] # "absent"
    /\ config.server \in SdkServers /\ ~config.openai
    /\ tool[i] = "get_cultural_insights"
    /\ args[i].city # Undefined /\ args[i].country # Undefined

\* C15: on a server with no chat-completion credential, a
\* get_cultural_insights invocation that names city and country makes no
\* chat-completion call and returns exactly "Error: " followed by the
\* server's credential-missing message.
C15_NoCredentialNoChat ==
    \A i \in Inv :
      NoChatCredential(i) =>
        /\ NoRequests(i)
        /\ pc[i] \in {"call", "done"}
        /\ Returned(i) =>
             Text(i) = <<"Error: ",
                         IF config.server = "standalone"
                         THEN "OPENAI_API_KEY not set on server"
                         ELSE "OpenAI API key not configured">>

\* The end-to-end scenario on standalone.ts.
C15_Witness ==
    \E i \in Inv :
      /\ NoChatCredential(i) /\ Returned(i)
      /\ config.server = "standalone"
      /\ args[i].city = "Lisbon" /\ args[i].country = "Portugal"
      /\ Text(i) = <<"Error: ", "OPENAI_API_KEY not set on server">>

\* C16: a list_media query answered with success and an empty or absent
\* media list returns the single text "No media found in gallery", which is
\* no "Error:" text; answered with items, it returns a gallery text whose
\* count is the number of items and whose items stand in the upstream's
\* order; and a limit of 0 is sent as 0.
C16_EmptyGalleryIsNotAnError ==
    /\ [](\A i \in Inv :
            (tool[i] = "list_media" /\ args[i].limit = <<0>>
               /\ reqs[i]["media"] >= 1) => sent[i].limit = <<"0">>)
    /\ [][\A i \in Inv : \A r \in Responses(MediaBodies) :
            (r.kind = "ok" /\ ListStep(i, r)) =>
              LET text == TextOf(result'[i])
                  n == Len(r.body.media)
              IN /\ Len(result'[i].content) = 1
                 /\ ~IsErrorText(text)
                 /\ n = 0 => text = <<"No media found in gallery">>
                 /\ n > 0 =>
                      /\ text[1] = "Gallery (" /\ text[2] = Str(n)
                      /\ Len(text) = 3 + 2 * n
                      /\ \A k \in 1..n :
                           /\ text[2 + 2 * k] = Str(k)
                           /\ text[3 + 2 * k] = r.body.media[k]]_vars

\* list_media with limit 0, answered with no items.
C16_Witness ==
    \E i \in Inv :
      /\ Returned(i) /\ tool[i] = "list_media" /\ args[i].limit = <<0>>
      /\ sent[i].limit = <<"0">>
      /\ result[i] = Envelope(<<"No media found in gallery">>)

\* C17: the limit a list_media invocation sends to the media endpoint is
\* at most 50, whatever limit the caller gave, and 10 when the caller gave
\* none.
C17_LimitAtMostFifty ==
    \A i \in Inv :
      sent[i].limit # << >> =>
        /\ sent[i].limit[1] \in {Str(k) : k \in 0..50}
        /\ args[i].limit = << >> => sent[i].limit = <<"10">>

\* C18: every generate_video invocation returns, whatever the upstream
\* answers, after at most 30 delays and at most 30 status queries; the
\* queries issued are as many as the delays ended, so that each query
\* follows a delay of its own and none comes before the first delay.
C18_VideoTerminates ==
    /\ [](\A i \in Inv :
            /\ delays[i] <= 30 /\ queries[i] <= 30
            /\ queries[i] = delays[i]
            /\ pc[i] = "vid_start" => delays[i] = 0)
    /\ \A i \in Inv :
         (tool[i] = "generate_video" /\ pc[i] = "call") ~> Returned(i)

\* The whole budget spent on answers of more than one kind.
C18_Witness ==
    \E i \in Inv :
      /\ Returned(i) /\ tool[i] = "generate_video"
      /\ delays[i] = 30 /\ queries[i] = 30 /\ history[i] = "mixed"

\* C19: the completed result is returned only on a download answered with
\* success; that download was requested on a status answer of done with a
\* file reference, within the same attempt; a download answered with a
\* non-success status ends nothing, costs one attempt, and sends the loop
\* back to its delay (or, the budget spent, to the timed-out result).
C19_CompletedNeedsDownload ==
    /\ [](\A i \in Inv :
            /\ pc[i] = "vid_download" =>
                 (queries[i] = attempts[i] + 1 /\ reqs[i]["veo_download"] >= 1)
            /\ (Returned(i) /\ IsCompleted(result[i])) =>
                 (queries[i] = attempts[i] + 1 /\ reqs[i]["veo_download"] >= 1))
    /\ [][\A i \in Inv :
            /\ (IsCompleted(result'[i]) /\ ~IsCompleted(result[i])) =>
                 \E r \in Responses(DownloadBodies) :
                   r.kind = "ok" /\ DownloadStep(i, r)
            /\ (pc'[i] = "vid_download" /\ pc[i] # "vid_download") =>
                 /\ attempts'[i] = attempts[i]
                 /\ \E r \in Responses(PollBodies) :
                      /\ r.kind = "ok" /\ r.body.done
                      /\ FileUriOf(r.body) # Undefined
                      /\ PollStep(i, r)
            /\ \A r \in Responses(DownloadBodies) :
                 (r.kind = "notok" /\ DownloadStep(i, r)) =>
                   (Continues(i) /\ ~IsCompleted(result'[i]))]_vars

\* Timed out after downloads that failed: the job was done, and the budget
\* went on status queries and downloads.
C19_Witness ==
    \E i \in Inv :
      /\ Returned(i) /\ IsTimedOut(result[i])
      /\ attempts[i] = 30 /\ reqs[i]["veo_download"] = CountCap

====
